---- MODULE Spec2Model ----
(***************************************************************************)
(* A model of the winvault package: the conversion helpers that copy       *)
(* native Vault-API records into Go values, and the gateway functions      *)
(* that call vaultcli.dll and release the buffers it returns.              *)
(*                                                                         *)
(* Two specifications are given.  ConvSpec applies the pure conversion     *)
(* functions to inputs drawn from bounded sets.  Spec is the session       *)
(* state machine (List, Open, Close, Items) over a native layer whose      *)
(* return statuses are chosen nondeterministically.                        *)
(***************************************************************************)
EXTENDS Integers, Sequences, FiniteSets, TLC

VARIABLES
    cOp,        \* ConvSpec: the conversion applied last ("none" before any)
    cIn,        \* ConvSpec: its input
    cOut,       \* ConvSpec: its output
    useAPI7,    \* syscall.go:27, fixed at start-up
    vault,      \* the Vault object held by the caller
    nOpen,      \* native layer: handles that are open
    nNext,      \* native layer: the next handle VaultOpenVault hands out
    closed,     \* whether Close was called on that Vault object
    lastOp,     \* the last gateway operation and what it returned
    log         \* the native calls, buffer reads and frees of that operation

vars == <<cOp, cIn, cOut, useAPI7, vault, nOpen, nNext, closed, lastOp, log>>
convVars == <<cOp, cIn, cOut>>
gateVars == <<useAPI7, vault, nOpen, nNext, closed, lastOp, log>>

(***************************************************************************)
(* Bounds of the model.                                                    *)
(***************************************************************************)
MaxUnits == 4      \* longest wide-string buffer, terminator and tail included
MaxBytes == 2      \* longest native byte buffer
MaxItems == 3      \* most descriptors one enumeration returns
MaxHandles == 2    \* most handles the native layer hands out in one run
MaxVaults == 2     \* most vault ids one VaultEnumerateVaults call returns

(***************************************************************************)
(* Program constants.                                                      *)
(***************************************************************************)
NO_ERROR == 0
vaultElementTypeString == 7
vaultElementTypeByteArray == 8
vaultInformationKindName == 1
vaultInformationKindPath7 == 8
vaultInformationKindPath8 == 4
\* syscall.InvalidHandle is ^Handle(0), all bits set: -1 read as a signed word.
InvalidHandle == -1

\* The element type tags the native API defines (syscall.go:38-52).
ElementTypes == (-1)..13

(***************************************************************************)
(* Native memory as the conversions see it.  A pointer is null or gives    *)
(* the memory that starts at its address.                                  *)
(***************************************************************************)
NullPtr == [null |-> TRUE, mem |-> <<>>]
PtrTo(m) == [null |-> FALSE, mem |-> m]

\* 16-bit code units used in buffers: NUL, 'a', 'b', a high and a low surrogate.
Units == {0, 97, 98, 55357, 56832}
Bytes == {0, 255}

RECURSIVE SeqsOf(_, _)
SeqsOf(S, n) ==
    IF n = 0 THEN {<<>>}
    ELSE {Append(s, x) : s \in SeqsOf(S, n - 1), x \in S}

SeqsUpTo(S, n) == UNION {SeqsOf(S, k) : k \in 0..n}

\* Zero-terminated wide buffers: a zero unit occurs, anything may follow it.
WideBufs == {m \in SeqsUpTo(Units, MaxUnits) : \E i \in 1..Len(m) : m[i] = 0}

(***************************************************************************)
(* utf16.Decode: surrogate pairs become one rune, lone surrogates U+FFFD.  *)
(* A Go string is modelled as the sequence of its runes.                   *)
(***************************************************************************)
IsSurr1(r) == 55296 <= r /\ r < 56320
IsSurr2(r) == 56320 <= r /\ r < 57344

RECURSIVE utf16Decode(_)
utf16Decode(s) ==
    IF s = <<>> THEN <<>>
    ELSE IF ~IsSurr1(s[1]) /\ ~IsSurr2(s[1])
         THEN <<s[1]>> \o utf16Decode(Tail(s))
    ELSE IF IsSurr1(s[1]) /\ Len(s) > 1 /\ IsSurr2(s[2])
         THEN <<65536 + (s[1] - 55296) * 1024 + (s[2] - 56320)>>
              \o utf16Decode(Tail(Tail(s)))
    ELSE <<65533>> \o utf16Decode(Tail(s))

(***************************************************************************)
(* utf16PtrToString.  The loop reads the unit at offset len and stops at   *)
(* the first zero; the slice handed to utf16.Decode covers len units.      *)
(* The result carries the set of unit offsets (1-based) that were read.    *)
(***************************************************************************)
RECURSIVE utf16Scan(_, _, _)
utf16Scan(mem, len, reads) ==
    LET r == reads \cup {len + 1}
    IN  IF mem[len + 1] = 0
        THEN [str |-> utf16Decode(SubSeq(mem, 1, len)), reads |-> r \cup 1..len]
        ELSE utf16Scan(mem, len + 1, r)

\* A plausible slip: the slice length counts the terminator too.
RECURSIVE utf16ScanInclusive(_, _, _)
utf16ScanInclusive(mem, len, reads) ==
    LET r == reads \cup {len + 1}
    IN  IF mem[len + 1] = 0
        THEN [str |-> utf16Decode(SubSeq(mem, 1, len + 1)), reads |-> r \cup 1..(len + 1)]
        ELSE utf16ScanInclusive(mem, len + 1, r)

utf16PtrToStringInclusive(wstr) ==
    IF ~wstr.null
    THEN utf16ScanInclusive(wstr.mem, 0, {})
    ELSE [str |-> <<>>, reads |-> {}]

utf16PtrToStringRd(wstr) ==
    IF ~wstr.null
    THEN utf16Scan(wstr.mem, 0, {})
    ELSE [str |-> <<>>, reads |-> {}]

utf16PtrToString(wstr) == utf16PtrToStringRd(wstr).str

(***************************************************************************)
(* goBytes: a null source gives the empty slice, otherwise len bytes are   *)
(* copied.                                                                 *)
(***************************************************************************)
\* A plausible slip: the whole source buffer is copied, whatever len says.
goBytesWhole(src, len) ==
    IF src.null THEN <<>> ELSE src.mem

goBytes(src, len) ==
    IF src.null THEN <<>> ELSE [i \in 1..len |-> src.mem[i]]

(***************************************************************************)
(* Element records.  sysVaultElement is the header {ID, Type};             *)
(* sysVaultElementString adds Data, sysVaultElementByteArray adds Length   *)
(* and Value.  One record carries all of them; a conversion reads only     *)
(* the fields of the layout the type tag selects.                          *)
(***************************************************************************)
NullElem ==
    [null |-> TRUE, ID |-> 0, Type |-> 0, Data |-> NullPtr,
     Length |-> 0, Value |-> NullPtr]

Elem(id, type, data, length, value) ==
    [null |-> FALSE, ID |-> id, Type |-> type, Data |-> data,
     Length |-> length, Value |-> value]

\* A VaultItemElement interface value: nil, *VaultItemElementString or
\* *VaultItemElementByteArray.
NilElement == [kind |-> "nil", id |-> 0, value |-> <<>>]

\* A plausible slip: every tag but the byte-array one is read as a string.
convertToVaultItemElementLoose(elem) ==
    IF ~elem.null
    THEN IF elem.Type = vaultElementTypeByteArray
         THEN [kind |-> "ByteArray", id |-> elem.ID,
               value |-> goBytes(elem.Value, elem.Length)]
         ELSE [kind |-> "String", id |-> elem.ID,
               value |-> utf16PtrToString(elem.Data)]
    ELSE NilElement

convertToVaultItemElement(elem) ==
    IF ~elem.null
    THEN CASE elem.Type = vaultElementTypeString ->
                [kind |-> "String", id |-> elem.ID,
                 value |-> utf16PtrToString(elem.Data)]
           [] elem.Type = vaultElementTypeByteArray ->
                [kind |-> "ByteArray", id |-> elem.ID,
                 value |-> goBytes(elem.Value, elem.Length)]
           [] OTHER -> NilElement
    ELSE NilElement

(***************************************************************************)
(* syscall.Filetime.Nanoseconds and time.Unix(0, nsec).  A 64-bit word is  *)
(* four 16-bit limbs, least significant first, so that the arithmetic      *)
(* keeps the width of int64: (High<<32 + Low - 116444736000000000) * 100.  *)
(***************************************************************************)
Limb == 2^16
EpochOffset == <<32768, 54590, 45534, 413>>     \* 116444736000000000

RECURSIVE Sub64(_, _, _, _)
Sub64(a, b, i, borrow) ==
    IF i > 4 THEN <<>>
    ELSE LET d == a[i] - b[i] - borrow
         IN  IF d < 0
             THEN <<d + Limb>> \o Sub64(a, b, i + 1, 1)
             ELSE <<d>> \o Sub64(a, b, i + 1, 0)

RECURSIVE Mul64(_, _, _, _)
Mul64(a, k, i, carry) ==
    IF i > 4 THEN <<>>
    ELSE LET p == a[i] * k + carry
         IN  <<p % Limb>> \o Mul64(a, k, i + 1, p \div Limb)

Nanoseconds(ft) ==
    Mul64(Sub64(ft.LowDateTime \o ft.HighDateTime, EpochOffset, 1, 0), 100, 1, 0)

\* time.Unix(0, nsec): the instant is identified by its int64 nanosecond count.
TimeUnix(nsec) == [unixNano |-> nsec]

(***************************************************************************)
(* The two native item layouts and their conversions.                      *)
(***************************************************************************)
sysVaultItem7(id, name, res, ident, auth, ft) ==
    [ID |-> id, Name |-> name, Resource |-> res, Identity |-> ident,
     Authenticator |-> auth, Filetime |-> ft, Flags |-> 0,
     PropertiesCount |-> 0, Properties |-> 0]

sysVaultItem8(id, name, res, ident, auth, sid, ft) ==
    [ID |-> id, Name |-> name, Resource |-> res, Identity |-> ident,
     Authenticator |-> auth, PackageSid |-> sid, Filetime |-> ft, Flags |-> 0,
     PropertiesCount |-> 0, Properties |-> 0]

convertToVaultItem7(item) ==
    [ID |-> item.ID,
     Name |-> utf16PtrToString(item.Name),
     Resource |-> convertToVaultItemElement(item.Resource),
     Identity |-> convertToVaultItemElement(item.Identity),
     Authenticator |-> convertToVaultItemElement(item.Authenticator),
     LastModified |-> TimeUnix(Nanoseconds(item.Filetime))]

\* A plausible slip in the wider layout: the field after Authenticator is
\* taken for the file time's low word.
convertToVaultItem8Shifted(item) ==
    [ID |-> item.ID,
     Name |-> utf16PtrToString(item.Name),
     Resource |-> convertToVaultItemElement(item.Resource),
     Identity |-> convertToVaultItemElement(item.Identity),
     Authenticator |-> convertToVaultItemElement(item.Authenticator),
     LastModified |-> TimeUnix(Nanoseconds(
        [LowDateTime |-> <<item.PackageSid % Limb, 0>>,
         HighDateTime |-> item.Filetime.LowDateTime]))]

convertToVaultItem8(item) ==
    [ID |-> item.ID,
     Name |-> utf16PtrToString(item.Name),
     Resource |-> convertToVaultItemElement(item.Resource),
     Identity |-> convertToVaultItemElement(item.Identity),
     Authenticator |-> convertToVaultItemElement(item.Authenticator),
     LastModified |-> TimeUnix(Nanoseconds(item.Filetime))]

(***************************************************************************)
(* Inputs of the conversions.                                              *)
(***************************************************************************)
WidePtrs == {NullPtr} \cup {PtrTo(m) : m \in WideBufs}

\* Wide strings for element and item fields: "", "ab", "a" with a tail
\* behind its terminator.
WideSample == {NullPtr, PtrTo(<<0>>), PtrTo(<<97, 98, 0>>), PtrTo(<<97, 0, 98>>)}

BytePtrs == {NullPtr} \cup {PtrTo(m) : m \in SeqsOf(Bytes, MaxBytes)}

ElemPtrs ==
    {NullElem} \cup
    {Elem(id, t, d, n, v) : id \in {1, 2}, t \in ElementTypes,
                            d \in {NullPtr, PtrTo(<<97, 98, 0>>)},
                            n \in 0..MaxBytes, v \in BytePtrs}

ElemSample ==
    {NullElem,
     Elem(1, vaultElementTypeString, PtrTo(<<97, 98, 0>>), 0, NullPtr),
     Elem(2, vaultElementTypeByteArray, NullPtr, 1, PtrTo(<<255, 0>>)),
     Elem(3, 3, NullPtr, 0, NullPtr)}

Filetimes ==
    {[LowDateTime |-> <<0, 0>>, HighDateTime |-> <<0, 0>>],
     [LowDateTime |-> <<32768, 61581>>, HighDateTime |-> <<25470, 466>>],
     [LowDateTime |-> <<65535, 65535>>, HighDateTime |-> <<65535, 65535>>]}

PackageSids == {0, 77}

(***************************************************************************)
(* The native layer.  Every vaultcli.dll entry point returns a status,     *)
(* zero for success.  A call on a handle that is not open fails with       *)
(* ERROR_INVALID_HANDLE (6); on an open handle it succeeds or fails with   *)
(* ERROR_ACCESS_DENIED (5) or ERROR_NOT_FOUND (1168).                      *)
(***************************************************************************)
NativeFailures == {5, 1168}
NativeStatuses == {NO_ERROR} \cup NativeFailures
StatusesOn(handle, open) == IF handle \in open THEN NativeStatuses ELSE {6}

\* error values: nil or syscall.Errno(code)
NilErr == [nil |-> TRUE, code |-> 0]
Errno(ret) == [nil |-> FALSE, code |-> ret]

\* Entries of the operation log.
CallEv(fn, h, arg, ret, out) ==
    [ev |-> "call", fn |-> fn, h |-> h, arg |-> arg, ret |-> ret, buf |-> out]
ReadEv(b) ==
    [ev |-> "read", fn |-> "", h |-> 0, arg |-> 0, ret |-> 0, buf |-> b]
FreeEv(b) ==
    [ev |-> "free", fn |-> "VaultFree", h |-> 0, arg |-> 0, ret |-> 0, buf |-> b]
RetEv(fn, err, n) ==
    [ev |-> "return", fn |-> fn, h |-> 0, arg |-> n, ret |-> err.code, buf |-> 0]

\* What the store holds: item i as VaultGetItem returns it, and the
\* descriptor of item i in the array VaultEnumerateItems returns.
ElemOf(k) ==
    CASE k % 4 = 0 -> NullElem
      [] k % 4 = 1 -> Elem(k, vaultElementTypeString, PtrTo(<<97, 98, 0>>), 0, NullPtr)
      [] k % 4 = 2 -> Elem(k, vaultElementTypeByteArray, NullPtr, 1, PtrTo(<<255, 0>>))
      [] OTHER -> Elem(k, 3, NullPtr, 0, NullPtr)

StoreFiletime(i) == [LowDateTime |-> <<i, 0>>, HighDateTime |-> <<25470, 466>>]

NativeItem7(i) ==
    sysVaultItem7(i, PtrTo(<<97, 0>>), ElemOf(i), ElemOf(i + 1), ElemOf(i + 2),
                  StoreFiletime(i))
NativeItem8(i) ==
    sysVaultItem8(i, PtrTo(<<97, 0>>), ElemOf(i), ElemOf(i + 1), ElemOf(i + 2), 77,
                  StoreFiletime(i))
NativeDescriptor7(i) ==
    sysVaultItem7(i, PtrTo(<<97, 0>>), ElemOf(i), ElemOf(i + 1), NullElem,
                  StoreFiletime(i))
NativeDescriptor8(i) ==
    sysVaultItem8(i, PtrTo(<<97, 0>>), ElemOf(i), ElemOf(i + 1), NullElem, 77,
                  StoreFiletime(i))

\* Buffers VaultEnumerateItems and VaultGetItem allocate in one listing:
\* the array is buffer 1, the detail record of descriptor i is buffer 1 + i.
ArrayBuf == 1
ItemBuf(i) == 1 + i

\* The outcome of VaultGetItem for descriptor i, given its status: the
\* buffer it allocated and the record `item` points to (none on failure).
NativeGetItem7(i, ret) ==
    IF ret = NO_ERROR
    THEN [ret |-> ret, buf |-> ItemBuf(i), item |-> <<NativeItem7(i)>>]
    ELSE [ret |-> ret, buf |-> 0, item |-> <<>>]
NativeGetItem8(i, ret) ==
    IF ret = NO_ERROR
    THEN [ret |-> ret, buf |-> ItemBuf(i), item |-> <<NativeItem8(i)>>]
    ELSE [ret |-> ret, buf |-> 0, item |-> <<>>]

(***************************************************************************)
(* The gateway functions of syscall.go.  Each takes the outcome `nat` of   *)
(* its native call and returns its Go results together with the log of     *)
(* native calls, reads of native buffers and frees, in program order.  A   *)
(* deferred VaultFree runs after the return expression is evaluated.       *)
(***************************************************************************)
\* A plausible slip: the free is deferred before the status check.
sysVaultEnumerateVaultsEagerDefer(nat) ==
    LET call == CallEv("VaultEnumerateVaults", 0, 0, nat.ret, nat.buf)
    IN  IF nat.ret # NO_ERROR
        THEN [result |-> <<>>, err |-> Errno(nat.ret),
              log |-> <<call, FreeEv(nat.buf)>>]
        ELSE [result |-> [i \in 1..nat.count |-> nat.guids[i]], err |-> NilErr,
              log |-> <<call, ReadEv(nat.buf), FreeEv(nat.buf)>>]

sysVaultEnumerateVaults(nat) ==
    LET call == CallEv("VaultEnumerateVaults", 0, 0, nat.ret, nat.buf)
    IN  IF nat.ret # NO_ERROR
        THEN [result |-> <<>>, err |-> Errno(nat.ret), log |-> <<call>>]
        ELSE [result |-> [i \in 1..nat.count |-> nat.guids[i]], err |-> NilErr,
              log |-> <<call, ReadEv(nat.buf), FreeEv(nat.buf)>>]

sysVaultOpenVault(id, nat) ==
    LET call == CallEv("VaultOpenVault", 0, id, nat.ret, nat.handle)
    IN  IF nat.ret # NO_ERROR
        THEN [handle |-> 0, err |-> Errno(nat.ret), log |-> <<call>>]
        ELSE [handle |-> nat.handle, err |-> NilErr, log |-> <<call>>]

sysVaultCloseVault(handle, nat) ==
    LET call == CallEv("VaultCloseVault", handle, 0, nat.ret, 0)
    IN  IF nat.ret # NO_ERROR
        THEN [err |-> Errno(nat.ret), log |-> <<call>>]
        ELSE [err |-> NilErr, log |-> <<call>>]

sysVaultGetInformationString(handle, kind, nat) ==
    LET call == CallEv("VaultGetInformation", handle, kind, nat.ret, 0)
    IN  IF nat.ret # NO_ERROR
        THEN [str |-> <<>>, err |-> Errno(nat.ret), log |-> <<call>>]
        ELSE [str |-> utf16PtrToString(nat.value), err |-> NilErr, log |-> <<call>>]

\* A plausible slip: the record is freed at once instead of by a defer.
sysVaultGetItem7FreeFirst(handle, descriptor, nat) ==
    LET call == CallEv("VaultGetItem", handle, descriptor.ID, nat.ret, nat.buf)
    IN  IF nat.ret # NO_ERROR
        THEN [item |-> <<>>, err |-> Errno(nat.ret),
              log |-> <<call, RetEv("sysVaultGetItem", Errno(nat.ret), 0)>>]
        ELSE [item |-> <<convertToVaultItem7(nat.item[1])>>, err |-> NilErr,
              log |-> <<call, FreeEv(nat.buf), ReadEv(nat.buf),
                        RetEv("sysVaultGetItem", NilErr, 1)>>]

sysVaultGetItem7(handle, descriptor, nat) ==
    LET call == CallEv("VaultGetItem", handle, descriptor.ID, nat.ret, nat.buf)
    IN  IF nat.ret # NO_ERROR
        THEN [item |-> <<>>, err |-> Errno(nat.ret),
              log |-> <<call, RetEv("sysVaultGetItem", Errno(nat.ret), 0)>>]
        ELSE [item |-> <<convertToVaultItem7(nat.item[1])>>, err |-> NilErr,
              log |-> <<call, ReadEv(nat.buf), FreeEv(nat.buf),
                        RetEv("sysVaultGetItem", NilErr, 1)>>]

sysVaultGetItem8(handle, descriptor, nat) ==
    LET call == CallEv("VaultGetItem", handle, descriptor.ID, nat.ret, nat.buf)
    IN  IF nat.ret # NO_ERROR
        THEN [item |-> <<>>, err |-> Errno(nat.ret),
              log |-> <<call, RetEv("sysVaultGetItem", Errno(nat.ret), 0)>>]
        ELSE [item |-> <<convertToVaultItem8(nat.item[1])>>, err |-> NilErr,
              log |-> <<call, ReadEv(nat.buf), FreeEv(nat.buf),
                        RetEv("sysVaultGetItem", NilErr, 1)>>]

\* The two range loops of sysVaultEnumerateItems: descriptor i is read out
\* of the enumeration array, fetched, and appended when the fetch succeeded.
RECURSIVE fetchItems7(_, _, _, _, _)
fetchItems7(handle, nat, i, result, lg) ==
    IF i > nat.count THEN [result |-> result, log |-> lg]
    ELSE LET descriptor == nat.descriptors[i]
             r == sysVaultGetItem7(handle, descriptor, nat.fetch[i])
         IN  fetchItems7(handle, nat, i + 1,
                         IF r.err.nil THEN result \o r.item ELSE result,
                         lg \o <<ReadEv(nat.buf)>> \o r.log)

\* A plausible slip: the loop ends at the first fetch that fails.
RECURSIVE fetchItems8Abort(_, _, _, _, _)
fetchItems8Abort(handle, nat, i, result, lg) ==
    IF i > nat.count THEN [result |-> result, log |-> lg]
    ELSE LET descriptor == nat.descriptors[i]
             r == sysVaultGetItem8(handle, descriptor, nat.fetch[i])
         IN  IF r.err.nil
             THEN fetchItems8Abort(handle, nat, i + 1, result \o r.item,
                                   lg \o <<ReadEv(nat.buf)>> \o r.log)
             ELSE [result |-> result, log |-> lg \o <<ReadEv(nat.buf)>> \o r.log]

RECURSIVE fetchItems8(_, _, _, _, _)
fetchItems8(handle, nat, i, result, lg) ==
    IF i > nat.count THEN [result |-> result, log |-> lg]
    ELSE LET descriptor == nat.descriptors[i]
             r == sysVaultGetItem8(handle, descriptor, nat.fetch[i])
         IN  fetchItems8(handle, nat, i + 1,
                         IF r.err.nil THEN result \o r.item ELSE result,
                         lg \o <<ReadEv(nat.buf)>> \o r.log)

\* A plausible slip: the array is freed in the loop's success branch, so
\* only when some item was appended.
sysVaultEnumerateItemsFreeIfAny(handle, nat) ==
    LET call == CallEv("VaultEnumerateItems", handle, 0, nat.ret, nat.buf)
    IN  IF nat.ret # NO_ERROR
        THEN [result |-> <<>>, err |-> Errno(nat.ret), log |-> <<call>>]
        ELSE LET loop == IF useAPI7
                         THEN fetchItems7(handle, nat, 1, <<>>, <<>>)
                         ELSE fetchItems8(handle, nat, 1, <<>>, <<>>)
             IN  [result |-> loop.result, err |-> NilErr,
                  log |-> <<call>> \o loop.log \o
                          (IF loop.result # <<>> THEN <<FreeEv(nat.buf)>> ELSE <<>>)]

sysVaultEnumerateItems(handle, nat) ==
    LET call == CallEv("VaultEnumerateItems", handle, 0, nat.ret, nat.buf)
    IN  IF nat.ret # NO_ERROR
        THEN [result |-> <<>>, err |-> Errno(nat.ret), log |-> <<call>>]
        ELSE LET loop == IF useAPI7
                         THEN fetchItems7(handle, nat, 1, <<>>, <<>>)
                         ELSE fetchItems8(handle, nat, 1, <<>>, <<>>)
             IN  [result |-> loop.result, err |-> NilErr,
                  log |-> <<call>> \o loop.log \o <<FreeEv(nat.buf)>>]

(***************************************************************************)
(* The session functions of winvault.go.                                   *)
(***************************************************************************)
NoVault == <<>>

\* Open: the vault is returned only when all three native calls succeeded.
Open(vaultID, natOpen, natName, natPath) ==
    LET o == sysVaultOpenVault(vaultID, natOpen)
    IN  IF ~o.err.nil
        THEN [vault |-> NoVault, err |-> o.err, log |-> o.log]
        ELSE LET n == sysVaultGetInformationString(o.handle, vaultInformationKindName,
                                                   natName)
             IN  IF ~n.err.nil
                 THEN [vault |-> NoVault, err |-> n.err, log |-> o.log \o n.log]
                 ELSE LET p == IF useAPI7
                               THEN sysVaultGetInformationString(
                                        o.handle, vaultInformationKindPath7, natPath)
                               ELSE sysVaultGetInformationString(
                                        o.handle, vaultInformationKindPath8, natPath)
                      IN  IF ~p.err.nil
                          THEN [vault |-> NoVault, err |-> p.err,
                                log |-> o.log \o n.log \o p.log]
                          ELSE [vault |-> <<[ID |-> vaultID, Name |-> n.str,
                                             Path |-> p.str, handle |-> o.handle]>>,
                                err |-> NilErr, log |-> o.log \o n.log \o p.log]

List(nat) == sysVaultEnumerateVaults(nat)

\* A plausible slip: Close forgets to invalidate the handle.
CloseKeepsHandle(t, nat) ==
    [vault |-> t, log |-> sysVaultCloseVault(t.handle, nat).log]

\* Close: the native close's error is dropped, the handle is overwritten.
Close(t, nat) ==
    [vault |-> [t EXCEPT !.handle = InvalidHandle],
     log |-> sysVaultCloseVault(t.handle, nat).log]

Items(t, nat) == sysVaultEnumerateItems(t.handle, nat)

(***************************************************************************)
(* The native layer's handle table after the calls of a log: a successful  *)
(* VaultOpenVault opens the handle it returned, a successful               *)
(* VaultCloseVault closes the handle it was given.                         *)
(***************************************************************************)
RECURSIVE NativeApply(_, _)
NativeApply(open, lg) ==
    IF lg = <<>> THEN open
    ELSE LET e == Head(lg)
         IN  NativeApply(
                 IF e.ev = "call" /\ e.fn = "VaultOpenVault" /\ e.ret = NO_ERROR
                 THEN open \cup {e.buf}
                 ELSE IF e.ev = "call" /\ e.fn = "VaultCloseVault" /\ e.ret = NO_ERROR
                 THEN open \ {e.h}
                 ELSE open,
                 Tail(lg))

(***************************************************************************)
(* The session state machine.  One action is one call of an exported       *)
(* function; calls do not overlap (the package is synchronous).            *)
(***************************************************************************)
VaultIDs == {1, 2}
IdleOp == [op |-> "none", err |-> NilErr, result |-> <<>>, nat |-> <<>>,
           closedBefore |-> FALSE]

Init ==
    /\ cOp = "none" /\ cIn = <<>> /\ cOut = <<>>
    /\ useAPI7 \in BOOLEAN
    /\ vault = NoVault
    /\ closed = FALSE
    /\ nOpen = {}
    /\ nNext = 1
    /\ lastOp = IdleOp
    /\ log = <<>>

DoList ==
    \E ret \in NativeStatuses, count \in 0..MaxVaults :
        /\ ret # NO_ERROR => count = 0
        /\ LET nat == [ret |-> ret, count |-> count,
                       buf |-> IF ret = NO_ERROR THEN ArrayBuf ELSE 0,
                       guids |-> [i \in 1..count |-> 100 + i]]
               r == List(nat)
           IN  /\ lastOp' = [op |-> "List", err |-> r.err, result |-> r.result,
                             nat |-> nat, closedBefore |-> closed]
               /\ log' = r.log
        /\ UNCHANGED <<convVars, useAPI7, vault, nOpen, nNext, closed>>

\* The statuses of the three native calls of Open; a call that is not
\* reached has no status, written NO_ERROR.
OpenOutcomes ==
    {<<o, n, p>> \in NativeStatuses \X NativeStatuses \X NativeStatuses :
        /\ o # NO_ERROR => n = NO_ERROR
        /\ (o # NO_ERROR \/ n # NO_ERROR) => p = NO_ERROR}

DoOpen ==
    /\ vault = NoVault \/ closed
    /\ nNext <= MaxHandles
    /\ \E id \in VaultIDs, oc \in OpenOutcomes :
        LET natOpen == [ret |-> oc[1],
                        handle |-> IF oc[1] = NO_ERROR THEN nNext ELSE 0]
            natName == [ret |-> oc[2], value |-> PtrTo(<<97, 98, 0>>)]
            natPath == [ret |-> oc[3], value |-> PtrTo(<<98, 0>>)]
            r == Open(id, natOpen, natName, natPath)
        IN  /\ lastOp' = [op |-> "Open", err |-> r.err, result |-> r.vault,
                          nat |-> [ret |-> oc[1], handle |-> natOpen.handle,
                                   name |-> oc[2], path |-> oc[3]],
                          closedBefore |-> closed]
            /\ log' = r.log
            /\ nOpen' = NativeApply(nOpen, r.log)
            /\ nNext' = IF oc[1] = NO_ERROR THEN nNext + 1 ELSE nNext
            /\ vault' = IF r.err.nil THEN r.vault ELSE vault
            /\ closed' = IF r.err.nil THEN FALSE ELSE closed
    /\ UNCHANGED <<convVars, useAPI7>>

DoClose ==
    /\ vault # NoVault
    /\ \E ret \in StatusesOn(vault[1].handle, nOpen) :
        LET r == Close(vault[1], [ret |-> ret])
        IN  /\ vault' = <<r.vault>>
            /\ closed' = TRUE
            /\ nOpen' = NativeApply(nOpen, r.log)
            /\ log' = r.log
            /\ lastOp' = [op |-> "Close", err |-> NilErr, result |-> <<>>,
                          nat |-> [ret |-> ret], closedBefore |-> closed]
    /\ UNCHANGED <<convVars, useAPI7, nNext>>

DoItems ==
    /\ vault # NoVault
    /\ \E ret \in StatusesOn(vault[1].handle, nOpen), count \in 0..MaxItems :
        /\ ret # NO_ERROR => count = 0
        /\ \E st \in [1..count -> NativeStatuses] :
            LET nat == [ret |-> ret, count |-> count,
                        buf |-> IF ret = NO_ERROR THEN ArrayBuf ELSE 0,
                        descriptors |->
                            [i \in 1..count |-> IF useAPI7 THEN NativeDescriptor7(i)
                                                ELSE NativeDescriptor8(i)],
                        fetch |->
                            [i \in 1..count |-> IF useAPI7 THEN NativeGetItem7(i, st[i])
                                                ELSE NativeGetItem8(i, st[i])]]
                r == Items(vault[1], nat)
            IN  /\ lastOp' = [op |-> "Items", err |-> r.err, result |-> r.result,
                              nat |-> [ret |-> ret, count |-> count, st |-> st],
                              closedBefore |-> closed]
                /\ log' = r.log
    /\ UNCHANGED <<convVars, useAPI7, vault, nOpen, nNext, closed>>

Next == DoList \/ DoOpen \/ DoClose \/ DoItems

Spec == Init /\ [][Next]_vars

(***************************************************************************)
(* The conversions, each applied once to an input drawn from its set.      *)
(***************************************************************************)
DecodeWide ==
    /\ cOp = "none"
    /\ \E p \in WidePtrs :
        /\ cOp' = "utf16PtrToString"
        /\ cIn' = p
        /\ cOut' = utf16PtrToStringRd(p)
    /\ UNCHANGED gateVars

DecodeElement ==
    /\ cOp = "none"
    /\ \E e \in ElemPtrs :
        /\ cOp' = "convertToVaultItemElement"
        /\ cIn' = e
        /\ cOut' = convertToVaultItemElement(e)
    /\ UNCHANGED gateVars

MarshalItem ==
    /\ cOp = "none"
    /\ \E id \in VaultIDs, name \in WideSample, res \in ElemSample,
          ident \in ElemSample, auth \in ElemSample, ft \in Filetimes,
          sid \in PackageSids :
        LET item7 == sysVaultItem7(id, name, res, ident, auth, ft)
            item8 == sysVaultItem8(id, name, res, ident, auth, sid, ft)
        IN  /\ cOp' = "convertToVaultItem"
            /\ cIn' = [item7 |-> item7, item8 |-> item8]
            /\ cOut' = [v7 |-> convertToVaultItem7(item7),
                        v8 |-> convertToVaultItem8(item8)]
    /\ UNCHANGED gateVars

ConvNext == DecodeWide \/ DecodeElement \/ MarshalItem

ConvSpec == Init /\ [][ConvNext]_vars

(***************************************************************************)
(* Helpers of the properties.                                              *)
(***************************************************************************)
Frees(b) == {k \in DOMAIN log : log[k].ev = "free" /\ log[k].buf = b}
Reads(b) == {k \in DOMAIN log : log[k].ev = "read" /\ log[k].buf = b}
AllFrees == {k \in DOMAIN log : log[k].ev = "free"}
GetItemCalls == {k \in DOMAIN log : log[k].ev = "call" /\ log[k].fn = "VaultGetItem"}
ListingRan == lastOp.op = "Items" /\ lastOp.nat.ret = NO_ERROR
FailedFetches == {i \in 1..lastOp.nat.count : lastOp.nat.st[i] # NO_ERROR}

\* The items a listing is to return: those whose fetch has status zero, in
\* descriptor order.
RECURSIVE ExpectedItems(_, _)
ExpectedItems(st, i) ==
    IF i > Len(st) THEN <<>>
    ELSE (IF st[i] = NO_ERROR
          THEN <<IF useAPI7 THEN convertToVaultItem7(NativeItem7(i))
                 ELSE convertToVaultItem8(NativeItem8(i))>>
          ELSE <<>>) \o ExpectedItems(st, i + 1)

\* The index of the first zero unit of a buffer.
FirstZero(m) ==
    CHOOSE i \in 1..Len(m) : m[i] = 0 /\ \A j \in 1..(i - 1) : m[j] # 0

(***************************************************************************)
(* C1: a listing whose VaultEnumerateItems call returned zero has freed    *)
(* the enumeration array exactly once when it returns, whichever of the    *)
(* per-item fetches failed.                                                *)
(***************************************************************************)
C1_ArrayFreedOnce ==
    ListingRan => Cardinality(Frees(ArrayBuf)) = 1

C1_Witness ==
    /\ ListingRan
    /\ lastOp.nat.count = MaxItems
    /\ FailedFetches # {} /\ FailedFetches # 1..MaxItems
    /\ Cardinality(Frees(ArrayBuf)) = 1

(***************************************************************************)
(* C2: a listing whose enumeration succeeded returns no error and exactly  *)
(* the items whose fetch succeeded, in descriptor order.                   *)
(***************************************************************************)
C2_ListingSkipsFailures ==
    ListingRan =>
        /\ lastOp.err.nil
        /\ lastOp.result = ExpectedItems(lastOp.nat.st, 1)
        /\ Len(lastOp.result) = lastOp.nat.count - Cardinality(FailedFetches)

C2_Witness ==
    /\ ListingRan
    /\ lastOp.nat.count = 3
    /\ FailedFetches = {2}
    /\ lastOp.err.nil
    /\ Len(lastOp.result) = 2
    /\ lastOp.result[1].ID = 1 /\ lastOp.result[2].ID = 3

(***************************************************************************)
(* C3: once Close was called the Vault's handle is InvalidHandle, whether  *)
(* the native close succeeded or not, and a later Items passes             *)
(* InvalidHandle to VaultEnumerateItems and returns an error, no items.    *)
(***************************************************************************)
C3_ClosedHandleInvalid ==
    /\ closed => vault[1].handle = InvalidHandle
    /\ (lastOp.op = "Items" /\ lastOp.closedBefore) =>
            /\ log[1].fn = "VaultEnumerateItems"
            /\ log[1].h = InvalidHandle
            /\ Len(log) = 1
            /\ ~lastOp.err.nil
            /\ lastOp.result = <<>>

\* Items on a closed Vault whose native handle is still open (the native
\* close had failed).
C3_Witness ==
    /\ lastOp.op = "Items" /\ lastOp.closedBefore
    /\ nOpen # {}
    /\ log[1].h = InvalidHandle
    /\ ~lastOp.err.nil

(***************************************************************************)
(* C4 as stated: a non-null element whose type tag is neither string nor   *)
(* byte array converts to an Unsupported value, so that only a null        *)
(* element pointer gives an absent slot.                                   *)
(***************************************************************************)
C4_UnsupportedCarriesTag ==
    cOp = "convertToVaultItemElement" =>
        /\ (~cIn.null /\ cIn.Type \notin {vaultElementTypeString,
                                          vaultElementTypeByteArray})
                => cOut.kind = "Unsupported"
        /\ cOut = NilElement => cIn.null

(***************************************************************************)
(* C4 as amended: such an element converts to nil, the same as a null      *)
(* pointer; a slot is absent exactly when the pointer was null or the tag  *)
(* is neither string nor byte array.                                       *)
(***************************************************************************)
C4_UnsupportedIsNil ==
    cOp = "convertToVaultItemElement" =>
        (cOut = NilElement <=>
            (cIn.null \/ cIn.Type \notin {vaultElementTypeString,
                                          vaultElementTypeByteArray}))

C4_Witness ==
    /\ cOp = "convertToVaultItemElement"
    /\ ~cIn.null /\ cIn.Type = 3
    /\ cOut = NilElement

(***************************************************************************)
(* C5: in a listing no native buffer is read after it was freed: every     *)
(* fetched record is converted, then freed, exactly once, and the          *)
(* enumeration array is freed after the last fetch and conversion.         *)
(***************************************************************************)
C5_NoUseAfterFree ==
    lastOp.op = "Items" =>
        /\ \A i, j \in DOMAIN log :
              (i < j /\ log[i].ev = "free" /\ log[j].ev = "read")
                  => log[j].buf # log[i].buf
        /\ \A k \in GetItemCalls :
              IF log[k].ret = NO_ERROR
              THEN /\ Cardinality(Frees(log[k].buf)) = 1
                   /\ \E r \in Reads(log[k].buf), f \in Frees(log[k].buf) :
                         k < r /\ r < f
              ELSE log[k].buf = 0
        /\ \A f \in Frees(ArrayBuf) : \A k \in DOMAIN log :
              (log[k].ev = "read" \/ k \in GetItemCalls) => k < f
        /\ Cardinality(AllFrees) =
              Cardinality({k \in GetItemCalls : log[k].ret = NO_ERROR})
              + (IF ListingRan THEN 1 ELSE 0)

C5_Witness ==
    /\ ListingRan
    /\ lastOp.nat.count >= 2
    /\ FailedFetches = {}
    /\ Cardinality(AllFrees) = lastOp.nat.count + 1
    /\ log[Len(log)] = FreeEv(ArrayBuf)

(***************************************************************************)
(* C6: when the native call of a gateway function returns a non-zero       *)
(* status, the function returns at once an error carrying that status and  *)
(* no result, and frees nothing for that call.                             *)
(***************************************************************************)
C6_FailureReturnsStatus ==
    /\ (lastOp.op \in {"List", "Items", "Open"} /\ lastOp.nat.ret # NO_ERROR) =>
            /\ lastOp.err = Errno(lastOp.nat.ret)
            /\ lastOp.result = <<>>
            /\ Len(log) = 1 /\ log[1].ev = "call" /\ log[1].ret = lastOp.nat.ret
            /\ AllFrees = {}
    /\ lastOp.op = "Items" =>
            \A k \in GetItemCalls :
                log[k].ret # NO_ERROR =>
                    /\ log[k + 1].ev = "return"
                    /\ log[k + 1].ret = log[k].ret
                    /\ log[k + 1].arg = 0
                    /\ log[k].ret = lastOp.nat.st[log[k].arg]

C6_Witness ==
    /\ lastOp.op = "List"
    /\ lastOp.nat.ret = 1168
    /\ lastOp.err = Errno(1168)
    /\ lastOp.result = <<>>
    /\ AllFrees = {}

(***************************************************************************)
(* C7: a Legacy-layout record and a Current-layout record holding the      *)
(* same logical field values convert to the same VaultItem, whatever the   *)
(* Current layout's PackageSid.                                            *)
(***************************************************************************)
C7_LayoutTransparent ==
    cOp = "convertToVaultItem" => cOut.v7 = cOut.v8

C7_Witness ==
    /\ cOp = "convertToVaultItem"
    /\ cIn.item8.PackageSid # 0
    /\ cOut.v7.Resource.kind = "String"
    /\ cOut.v7.Authenticator.kind = "ByteArray"
    /\ cOut.v7 = cOut.v8

(***************************************************************************)
(* C8: a non-null element with the byte-array tag converts to a byte-array *)
(* element (never nil) carrying the element's id; its content is the first *)
(* Length bytes of the source, and empty when the data pointer is null or  *)
(* Length is 0.                                                            *)
(***************************************************************************)
C8_BytesElement ==
    (cOp = "convertToVaultItemElement" /\ ~cIn.null
     /\ cIn.Type = vaultElementTypeByteArray) =>
        /\ cOut.kind = "ByteArray"
        /\ cOut.id = cIn.ID
        /\ IF cIn.Value.null \/ cIn.Length = 0
           THEN cOut.value = <<>>
           ELSE /\ Len(cOut.value) = cIn.Length
                /\ \A i \in 1..cIn.Length : cOut.value[i] = cIn.Value.mem[i]

C8_Witness ==
    /\ cOp = "convertToVaultItemElement"
    /\ ~cIn.null /\ cIn.Type = vaultElementTypeByteArray
    /\ ~cIn.Value.null /\ cIn.Length = 0
    /\ cOut.kind = "ByteArray" /\ cOut.value = <<>>

(***************************************************************************)
(* C9: utf16PtrToString gives the empty string for a null pointer; for n   *)
(* non-zero units followed by a zero unit it gives the text of those n     *)
(* units and reads the first n + 1 units of the buffer, no unit behind     *)
(* the terminator.                                                         *)
(***************************************************************************)
C9_WideStringExact ==
    cOp = "utf16PtrToString" =>
        IF cIn.null
        THEN cOut.str = <<>> /\ cOut.reads = {}
        ELSE LET n == FirstZero(cIn.mem) - 1
                 run == SubSeq(cIn.mem, 1, n)
             IN  /\ cOut.reads = 1..(n + 1)
                 /\ cOut.str = utf16Decode(run)
                 /\ (\A i \in 1..n : ~IsSurr1(run[i]) /\ ~IsSurr2(run[i]))
                        => cOut.str = run

\* "ab", its terminator, and one more unit behind it.
C9_Witness ==
    /\ cOp = "utf16PtrToString"
    /\ ~cIn.null /\ cIn.mem = <<97, 98, 0, 97>>
    /\ cOut.str = <<97, 98>>
    /\ cOut.reads = {1, 2, 3}

(***************************************************************************)
(* C10: when Open returns an error, no handle that VaultOpenVault returned *)
(* during that call is still open.                                         *)
(***************************************************************************)
C10_OpenLeaksNoHandle ==
    (lastOp.op = "Open" /\ ~lastOp.err.nil) =>
        \A k \in DOMAIN log :
            (log[k].ev = "call" /\ log[k].fn = "VaultOpenVault"
             /\ log[k].ret = NO_ERROR) => log[k].buf \notin nOpen
====
